---------------------------- MODULE Spec2Model ----------------------------
(***************************************************************************)
(* DataQueryBot: the generate / execute / repair loop with conversation    *)
(* memory, as implemented by process_query (src/app.py, the Streamlit UI)  *)
(* and by main (src/main.py, the console loop), with the three backend     *)
(* functions nl_to_sql, fix_sql_with_error and summarize_result they share.*)
(*                                                                         *)
(* Texts are sequences of one-character strings, so that startswith,       *)
(* strip, lower and the re.sub passes are computed on characters.          *)
(* A step of the model is what one thread does between two blocking calls  *)
(* (the text-generation service, the database): the call returns, the code *)
(* runs on to the next call and issues it.                                 *)
(*                                                                         *)
(* Spec follows one user (a UI session or the console), SpecSessions two   *)
(* UI sessions of one streamlit process.  SpecMemory, SpecSummarize and    *)
(* SpecCleanUp follow the memory, summarize_result's result description    *)
(* and its return with the spacing clean-up alone, over wider inputs.      *)
(* SpecPreprocess follows preprocess.py's pass over the lines of a raw CSV *)
(* file (src/preprocess.py).                                               *)
(***************************************************************************)
EXTENDS Integers, Sequences, FiniteSets, TLC

(***************************************************************************)
(* Bounds of the model.                                                    *)
(***************************************************************************)
\* questions submitted in one run, over all sessions
MaxTurns == 2

\* script runs caused by the sidebar that the model follows
MaxRuns == 2

\* pairs saved into one memory object when the memory is followed alone
MaxSaved == 5

\* rows of the result tables given to summarize_result when it is followed alone
MaxRows == 2

\* length of the summaries given to the spacing clean-up when it is followed alone
MaxLen == 4

\* characters of a line of a raw CSV file
MaxLine == 4

(***************************************************************************)
(* Characters and the string methods the code uses.                        *)
(***************************************************************************)
UPPER == <<"A","B","C","D","E","F","G","H","I","J","K","L","M",
           "N","O","P","Q","R","S","T","U","V","W","X","Y","Z">>

LOWER == <<"a","b","c","d","e","f","g","h","i","j","k","l","m",
           "n","o","p","q","r","s","t","u","v","w","x","y","z">>

DIGITS == {"0","1","2","3","4","5","6","7","8","9"}

WHITESPACE == {" ", "\t", "\n"}

IsUpper(c) == \E i \in 1..26 : UPPER[i] = c

IsLower(c) == \E i \in 1..26 : LOWER[i] = c

IsDigit(c) == c \in DIGITS

\* str.lower() on one character
LowerChar(c) ==
    IF IsUpper(c) THEN LOWER[CHOOSE i \in 1..26 : UPPER[i] = c] ELSE c

\* str.lower()
lower(s) == [i \in 1..Len(s) |-> LowerChar(s[i])]

RECURSIVE lstrip(_)
lstrip(s) ==
    IF s # <<>> /\ Head(s) \in WHITESPACE THEN lstrip(Tail(s)) ELSE s

RECURSIVE rstrip(_)
rstrip(s) ==
    IF s # <<>> /\ s[Len(s)] \in WHITESPACE
    THEN rstrip(SubSeq(s, 1, Len(s) - 1))
    ELSE s

\* str.strip()
strip(s) == rstrip(lstrip(s))

\* str.startswith(p)
startswith(s, p) == Len(s) >= Len(p) /\ SubSeq(s, 1, Len(p)) = p

(***************************************************************************)
(* Optional values: Python's None, or a value.                             *)
(***************************************************************************)
NoText == <<>>

\* error_msg = None
NoneMsg == [isNone |-> TRUE, text |-> NoText]

\* error_msg = str(e)
Msg(t) == [isNone |-> FALSE, text |-> t]

\* df_result = None
NoneDf == [isNone |-> TRUE, columns |-> <<>>, rows |-> <<>>]

\* a DataFrame returned by pd.read_sql_query
DataFrame(cols, rws) == [isNone |-> FALSE, columns |-> cols, rows |-> rws]

(***************************************************************************)
(* Program constants.                                                      *)
(***************************************************************************)
MAX_RETRIES == 3

\* the sentinel tested by generated_sql.startswith("--ERROR")
ERROR_MARKER == <<"-","-","E","R","R","O","R">>

IN_NL_TO_SQL ==
    <<" ","I","N"," ","n","l","_","t","o","_","s","q","l",":"," ">>

IN_FIX_SQL ==
    <<" ","I","N"," ","f","i","x","_","s","q","l","_","w","i","t","h","_",
      "e","r","r","o","r",":"," ">>

IN_SUMMARIZE ==
    <<" ","I","N"," ","s","u","m","m","a","r","i","z","e","_",
      "r","e","s","u","l","t",":"," ">>

EXIT == <<"e","x","i","t">>

\* k of the ConversationBufferWindowMemory created at import of main.py
WINDOW_K == 3

\* the sentence rule 9 of FEW_SHOT_SUMMARY_PROMPT asks the service to reply
\* with when the single row is 0 ("U+2014" stands for its em dash)
ZERO_MATCH_SENTENCE ==
    <<"I","t"," ","s","e","e","m","s"," ","t","h","e","r","e"," ","a","r",
      "e"," ","z","e","r","o"," ","m","a","t","c","h","i","n","g"," ","r",
      "e","c","o","r","d","s","U+2014","p","l","e","a","s","e"," ","v","e","r",
      "i","f","y"," ","y","o","u","r"," ","q","u","e","s","t","i","o","n",
      ".">>

(***************************************************************************)
(* The world outside the program: what the text-generation service can     *)
(* answer, what its client can raise, and the relational store.            *)
(***************************************************************************)
SQL_COUNT == <<"S","E","L","E","C","T"," ","n">>

SQL_BAD_COLUMN == <<"S","E","L","E","C","T"," ","x">>

SQL_SYNTAX == <<"S","E","L","E","C">>

\* response.choices[0].message.content of a SQL request, before .strip()
SqlCompletions == {SQL_COUNT \o <<"\n">>, SQL_BAD_COLUMN, SQL_SYNTAX}

\* response.choices[0].message.content of a summary request, before .strip()
SummaryCompletions == {<<"T","o","p",".","S","a","l","e","s","4","u">>,
                       <<" ","o","k">>}

\* str(e) of an exception raised by client.chat.completions.create
ServiceErrors == {<<"t","i","m","e","o","u","t">>}

NO_SUCH_COLUMN ==
    <<"n","o"," ","s","u","c","h"," ","c","o","l","u","m","n",":"," ","x">>

SYNTAX_ERROR == <<"s","y","n","t","a","x"," ","e","r","r","o","r">>

\* what the user can type into the input box of the UI
InputTexts == {<<>>, <<" ","o","r","d","e","r","s","?">>}

\* what the user can type at the console prompt
ConsoleLines == InputTexts \cup {<<"E","x","i","t"," ">>}

\* the names in Processed/cleaned_stores.csv, offered by the sidebar
merchant_names == {"Migos", "Tikka", "Ghost"}

\* the names in the stores table of Processed/dashboard_chatbot.db
StoreNames == {"Migos", "Tikka"}

\* COUNT(*) of the orders of each store, as the cell's str() text
OrderCount == [n \in StoreNames |-> IF n = "Migos" THEN <<"4">> ELSE <<"0">>]

\* what a connection shows: the engine of the original file shows every
\* store's rows, the engine of the filtered file the rows the file holds at
\* that moment; engine None has no connection
Visible(engine, file) ==
    CASE engine = "original" -> StoreNames
      [] engine = "filtered" -> file
      [] OTHER -> {}

\* the count over the visible rows (at most one store has orders)
CountOver(stores) == IF "Migos" \in stores THEN OrderCount["Migos"] ELSE <<"0">>

ENGINE_IS_NONE == <<"n","o"," ","c","o","n","n","e","c","t","i","o","n">>

NO_SUCH_TABLE ==
    <<"n","o"," ","s","u","c","h"," ","t","a","b","l","e">>

\* pd.read_sql_query(sql, engine): the rows, or the exception's str(e).
\* Cells are given as their str() text.
read_sql_query(sql, engine, file) ==
    CASE engine = "None" ->
            [raised |-> TRUE, df |-> NoneDf, e |-> ENGINE_IS_NONE]
      [] engine = "filtered" /\ file = {} ->
            [raised |-> TRUE, df |-> NoneDf, e |-> NO_SUCH_TABLE]
      [] sql = SQL_COUNT ->
            [raised |-> FALSE,
             df |-> DataFrame(<<"n">>, << <<CountOver(Visible(engine, file))>> >>),
             e |-> NoText]
      [] sql = SQL_BAD_COLUMN ->
            [raised |-> TRUE, df |-> NoneDf, e |-> NO_SUCH_COLUMN]
      [] OTHER ->
            [raised |-> TRUE, df |-> NoneDf, e |-> SYNTAX_ERROR]

\* The outcome of one call of client.chat.completions.create
Completed(content) == [raised |-> FALSE, content |-> content, e |-> NoText]

Raised(e) == [raised |-> TRUE, content |-> NoText, e |-> e]

SqlResponses ==
    {Completed(c) : c \in SqlCompletions} \cup {Raised(e) : e \in ServiceErrors}

SummaryResponses ==
    {Completed(c) : c \in SummaryCompletions}
        \cup {Raised(e) : e \in ServiceErrors}

(***************************************************************************)
(* Sessions and memory objects.                                            *)
(***************************************************************************)
Sessions == {"s1", "s2"}

\* The ConversationBufferMemory objects a UI session can hold at one time:
\* the one st.session_state.memories has for the current mode, and the one
\* it replaced if the module global main.memory still names it.
Slots == [s \in Sessions |-> IF s = "s1" THEN {"s1a", "s1b"}
                                           ELSE {"s2a", "s2b"}]

\* "global" is the ConversationBufferWindowMemory main.py creates at import
MemoryObjects == {"global"} \cup UNION {Slots[s] : s \in Sessions}

\* ConversationBufferMemory(return_messages=True): a new object, which is
\* none of those still referenced (by the module global)
NewMemory(s, current, global) ==
    IF current \in Slots[s] /\ global # current
    THEN current
    ELSE CHOOSE m \in Slots[s] : m # global

\* mode = f"merchant:{selected_merchant}"
ModeOf == [n \in merchant_names |->
             CASE n = "Migos" -> "merchant:Migos"
               [] n = "Tikka" -> "merchant:Tikka"
               [] OTHER -> "merchant:Ghost"]

\* current_mode.split("merchant:")[1]
merchant_of(mode) == CHOOSE n \in merchant_names : ModeOf[n] = mode

\* the sidebar: the radio's choices and the selectbox's
UserTypes == {"PerDiem Internal User", "Merchant"}

MerchantChoices == {""} \cup merchant_names

\* mode, from the sidebar's two widgets; "" stands for None
mode_of(user_type, selected_merchant) ==
    IF user_type = "Merchant"
    THEN IF selected_merchant # "" THEN ModeOf[selected_merchant] ELSE ""
    ELSE "internal"

\* context_str
ContextOf == [n \in merchant_names |->
                CASE n = "Migos" -> "Serving for merchant: Migos"
                  [] n = "Tikka" -> "Serving for merchant: Tikka"
                  [] OTHER -> "Serving for merchant: Ghost"]

INTERNAL_CONTEXT == "Serving for PerDiem internal user"

\* initialize_database(merchant_name, is_per_diem_user), and the set-up at
\* the head of main(): the engine, the context string, the filtered file's
\* content afterwards, and whether the store was found
initialize_database(merchant_name, file) ==
    IF merchant_name # ""
    THEN IF merchant_name \notin StoreNames
         THEN [engine |-> "None", context |-> "", file |-> file,
               found |-> FALSE]
         ELSE [engine |-> "filtered", context |-> ContextOf[merchant_name],
               file |-> {merchant_name}, found |-> TRUE]
    ELSE [engine |-> "original", context |-> INTERNAL_CONTEXT, file |-> file,
          found |-> TRUE]

\* (variant: the first n elements)
Last_from_the_front(q, n) == IF Len(q) <= n THEN q ELSE SubSeq(q, 1, n)

\* the last n elements of a sequence
Last(q, n) == IF Len(q) <= n THEN q ELSE SubSeq(q, Len(q) - n + 1, Len(q))

\* memory.load_memory_variables({})["history"] on a buffer of turns
load_memory_variables(m, buffer) ==
    IF m = "global" THEN Last(buffer, WINDOW_K) ELSE buffer

\* memory.save_context({"user": q}, {"assistant": a}) on a buffer of turns
save_context(buffer, q, a) == Append(buffer, [user |-> q, assistant |-> a])

(***************************************************************************)
(* The backend functions of main.py, from the service call's outcome on.   *)
(***************************************************************************)
\* nl_to_sql: the completion stripped, or the marker string of the except
nl_to_sql(r) ==
    IF r.raised
    THEN ERROR_MARKER \o IN_NL_TO_SQL \o r.e
    ELSE strip(r.content)

\* fix_sql_with_error: the completion stripped, or the marker string
fix_sql_with_error(r) ==
    IF r.raised
    THEN ERROR_MARKER \o IN_FIX_SQL \o r.e
    ELSE strip(r.content)

\* (variant: the except branch keeps the exception's text only)
summary_of_without_marker(r) ==
    IF r.raised THEN r.e ELSE strip(r.content)

\* summarize_result: the summary built from the service call's outcome
summary_of(r) ==
    IF r.raised
    THEN ERROR_MARKER \o IN_SUMMARIZE \o r.e
    ELSE strip(r.content)

\* Python truth value of error_msg: None and "" are false
Truthy(error_msg) == ~error_msg.isNone /\ error_msg.text # NoText

\* df.empty
Empty(df) == df.rows = <<>> \/ df.columns = <<>>

\* df.shape == (1, 1) and str(df.iat[0, 0]) in ("0", "0.0")
SingleZero(df) ==
    /\ Len(df.rows) = 1
    /\ Len(df.columns) = 1
    /\ df.rows[1][1] \in {<<"0">>, <<"0", ".", "0">>}

\* result_content of summarize_result: which of the four forms the prompt
\* gets, with the error message or the table it carries
result_content(df, error_msg) ==
    IF Truthy(error_msg)
    THEN [form |-> "Error executing SQL", error |-> error_msg.text,
          table |-> NoneDf]
    ELSE IF df.isNone \/ Empty(df)
    THEN [form |-> "no rows returned", error |-> NoText, table |-> NoneDf]
    ELSE IF SingleZero(df)
    THEN [form |-> "single value 0", error |-> NoText, table |-> NoneDf]
    ELSE [form |-> "Result Table", error |-> NoText, table |-> df]

(***************************************************************************)
(* The spacing clean-up of process_query: three re.sub passes.             *)
(***************************************************************************)
\* (variant: the third pattern written with [a-z] only)
Matches_lowercase_before_digit(n, a, b) ==
    CASE n = 1 -> a = "." /\ IsUpper(b)
      [] n = 2 -> IsLower(a) /\ IsUpper(b)
      [] n = 3 -> IsLower(a) /\ IsDigit(b)

\* whether pass n matches the two characters a, b
Matches(n, a, b) ==
    CASE n = 1 -> a = "." /\ IsUpper(b)
      [] n = 2 -> IsLower(a) /\ IsUpper(b)
      [] n = 3 -> (IsUpper(a) \/ IsLower(a)) /\ IsDigit(b)

\* re.sub of pass n: leftmost non-overlapping matches, a space put between
\* the two characters of each
RECURSIVE re_sub(_, _)
re_sub(n, s) ==
    IF Len(s) < 2 THEN s
    ELSE IF Matches(n, s[1], s[2])
         THEN <<s[1], " ", s[2]>> \o re_sub(n, SubSeq(s, 3, Len(s)))
         ELSE <<s[1]>> \o re_sub(n, Tail(s))

clean_up_spacing(response) == re_sub(3, re_sub(2, re_sub(1, response)))

(***************************************************************************)
(* State.                                                                  *)
(***************************************************************************)
VARIABLES
    entry,          \* "ui": streamlit runs app.py; "console": main.py's main()
    turns,          \* questions that started a turn so far
    memory,         \* the module global main.memory: a memory object
    buffer,         \* the turns each memory object holds
    current_mode,   \* st.session_state.current_mode of each UI session
    chat_history,   \* st.session_state.chat_history of each UI session
    printed,        \* the "Assistant:" lines the console loop printed
    pc,             \* the call each session's thread is blocked in
    question,       \* question / user_question
    generated_sql,
    df_result,
    error_msg,
    attempt,
    history_str,    \* the history the pending call loaded, and from where
    trace,          \* the calls of each session's current turn, in order
    memories,       \* st.session_state.memories.get(current_mode)
    engine,         \* st.session_state.engine / main's engine
    context_str,    \* st.session_state.context_str / main's context_str
    filtered_db,    \* the stores whose rows Processed/filtered_dashboard_chatbot.db holds
    runs,           \* script runs caused by the sidebar so far
    prompt_result,  \* result_content of the summarization prompt being answered
    infile,         \* the lines of the CSV file preprocess_files reads
    outfile         \* the lines preprocess_files has written to fixed_<name>

\* the tenant scope of the sessions
scope == <<memories, engine, context_str, filtered_db, runs>>

vars == <<entry, turns, memory, buffer, current_mode, chat_history, printed,
          pc, question, generated_sql, df_result, error_msg, attempt,
          history_str, trace, memories, engine, context_str, filtered_db,
          runs, prompt_result, infile, outfile>>

\* the files of the preprocessing step, which the chatbot never touches
files == <<infile, outfile>>

\* one completed call of the turn
Event(op, sql, df, err, text, m) ==
    [op |-> op, sql |-> sql, df |-> df, err |-> err, text |-> text, mem |-> m,
     store |-> {}]

NoHistory == [mem |-> "-", turns |-> <<>>]

\* no summarization prompt has been built
NoResult == [form |-> "-", error |-> NoText, table |-> NoneDf]

\* MERCHANT_NAME in the environment of the console program
ConsoleMerchants == {"", "Migos", "Ghost"}

\* The state after start-up, with the browser sessions in `open` connected
\* (each has run the script once, with the sidebar's default choice); the
\* console loop serves the single user s1, after the set-up at the head of
\* main() for the merchant of its environment, which raises RuntimeError if
\* the store is not found.
InitWith(open) ==
    /\ entry \in {"ui", "console"}
    /\ infile = <<>>
    /\ outfile = <<>>
    /\ turns = 0
    /\ runs = 0
    /\ prompt_result = [s \in Sessions |-> NoResult]
    /\ memory = "global"
    /\ buffer = [m \in MemoryObjects |-> <<>>]
    /\ current_mode = [s \in Sessions |-> "internal"]
    /\ chat_history = [s \in Sessions |-> <<>>]
    /\ printed = <<>>
    /\ memories = [s \in Sessions |-> NewMemory(s, "None", "global")]
    /\ \E merchant_name \in ConsoleMerchants :
          LET db == initialize_database(
                        IF entry = "console" THEN merchant_name ELSE "", {})
          IN /\ entry = "ui" => merchant_name = ""
             /\ engine = [s \in Sessions |-> db.engine]
             /\ context_str = [s \in Sessions |-> db.context]
             /\ filtered_db = db.file
             /\ pc = [s \in Sessions |->
                        IF s \in (IF entry = "ui" THEN open ELSE {"s1"})
                        THEN IF db.found THEN "input" ELSE "raised"
                        ELSE "closed"]
    /\ question = [s \in Sessions |-> NoText]
    /\ generated_sql = [s \in Sessions |-> NoText]
    /\ df_result = [s \in Sessions |-> NoneDf]
    /\ error_msg = [s \in Sessions |-> NoneMsg]
    /\ attempt = [s \in Sessions |-> 0]
    /\ history_str = [s \in Sessions |-> NoHistory]
    /\ trace = [s \in Sessions |-> <<>>]

\* one user
Init == InitWith({"s1"})

\* two browser sessions served by the one streamlit process
InitSessions == InitWith(Sessions)

(***************************************************************************)
(* The pieces of the retry loop that process_query and main share.         *)
(***************************************************************************)
\* (variant: the sentinel tested without its two dashes)
is_error_without_dashes(sql) == startswith(sql, <<"E","R","R","O","R">>)

\* generated_sql.startswith("--ERROR") / corrected_sql.startswith("--ERROR")
is_error(sql) == startswith(sql, ERROR_MARKER)

\* (variant: while attempt <= MAX_RETRIES)
retry_allowed_inclusive(a) == a <= MAX_RETRIES

\* while attempt < MAX_RETRIES
retry_allowed(a) == a < MAX_RETRIES

\* (variant: error_msg is not reset after a statement ran)
error_msg_kept_on_success(old) == old

\* error_msg = None, after a statement ran
error_msg_on_success(old) == NoneMsg

\* (variant: only the first failure's message is recorded)
error_msg_first_failure(old, e) == IF old.isNone THEN Msg(e) ELSE old

\* error_msg = str(e), in the except branch
error_msg_on_failure(old, e) == Msg(e)

\* get_current_memory(): st.session_state.memories.get(current_mode)
get_current_memory(s) == memories[s]

\* history_str = memory.load_memory_variables({})["history"], with the
\* memory object m the module global names at that moment
LoadHistoryFrom(m) ==
    [mem |-> m, turns |-> load_memory_variables(m, buffer[m])]

\* summarize_result up to its service call: the prompt is built from the
\* arguments and from the history read through the module global
call_summarize(s, tr) ==
    /\ pc' = [pc EXCEPT ![s] = "summarize_result"]
    /\ prompt_result' = [prompt_result EXCEPT
                            ![s] = result_content(df_result'[s], error_msg'[s])]
    /\ history_str' = [history_str EXCEPT ![s] = LoadHistoryFrom(memory)]
    /\ trace' = [trace EXCEPT ![s] = tr]

\* the loop test: run the current candidate, or leave the loop
loop_test(s, a, tr) ==
    IF retry_allowed(a)
    THEN /\ pc' = [pc EXCEPT ![s] = "execute"]
         /\ history_str' = [history_str EXCEPT ![s] = NoHistory]
         /\ trace' = [trace EXCEPT ![s] = tr]
         /\ UNCHANGED prompt_result
    ELSE call_summarize(s, tr)

\* a turn starts: nl_to_sql runs up to its service call, reading the history
\* through the module global m
start_turn(s, q, m) ==
    /\ turns < MaxTurns
    /\ turns' = turns + 1
    /\ question' = [question EXCEPT ![s] = q]
    /\ history_str' = [history_str EXCEPT ![s] = LoadHistoryFrom(m)]
    /\ trace' = [trace EXCEPT ![s] = <<>>]
    /\ pc' = [pc EXCEPT ![s] = "nl_to_sql"]
    /\ UNCHANGED prompt_result

\* The turn is over: process_query returns and its locals are gone; main
\* goes back to input() and its locals keep their values.
end_turn(s) ==
    /\ pc' = [pc EXCEPT ![s] = "input"]
    /\ prompt_result' = [prompt_result EXCEPT ![s] = NoResult]
    /\ history_str' = [history_str EXCEPT ![s] = NoHistory]
    /\ trace' = [trace EXCEPT ![s] = <<>>]
    /\ IF entry = "ui"
       THEN /\ question' = [question EXCEPT ![s] = NoText]
            /\ generated_sql' = [generated_sql EXCEPT ![s] = NoText]
            /\ df_result' = [df_result EXCEPT ![s] = NoneDf]
            /\ error_msg' = [error_msg EXCEPT ![s] = NoneMsg]
            /\ attempt' = [attempt EXCEPT ![s] = 0]
       ELSE UNCHANGED <<question, df_result, error_msg, attempt>>

\* A memory object nothing refers to any more is gone: the buffers of the
\* objects that the module global or a session's memories still name.
referenced(buf, global, mems) ==
    [m \in MemoryObjects |->
        IF m = "global" \/ m = global \/ (\E s \in Sessions : mems[s] = m)
        THEN buf[m] ELSE <<>>]

\* ConversationBufferMemory(...): the object m starts empty
memory_created(buf, m) == [buf EXCEPT ![m] = <<>>]

\* (variant: the session keeps the memory object it has, with its turns)
memory_for_mode_kept(s, current, global, buf) ==
    [object |-> IF current \in Slots[s] THEN current
                ELSE NewMemory(s, current, global),
     buffer |-> buf]

\* st.session_state.memories[mode] = ConversationBufferMemory(...): the
\* object the mode's entry names afterwards, and the buffers
memory_for_mode(s, current, global, buf) ==
    LET new == NewMemory(s, current, global)
    IN [object |-> new, buffer |-> memory_created(buf, new)]

\* app.py 111-121 of a script run in mode `mode`: the engine, the context
\* string and the filtered file afterwards
reinitialize(s, mode) ==
    CASE mode = "" ->
            [engine |-> engine[s], context |-> context_str[s],
             file |-> filtered_db, found |-> TRUE]
      [] mode = "internal" -> initialize_database("", filtered_db)
      [] OTHER -> initialize_database(merchant_of(mode), filtered_db)

\* the script run that streamlit makes after the callback has returned: the
\* mode is the same, and the database is initialised again
rerun_after_callback(s) ==
    /\ filtered_db' = reinitialize(s, current_mode[s]).file
    /\ UNCHANGED <<memories, engine, context_str, runs>>

(***************************************************************************)
(* Actions.                                                                *)
(***************************************************************************)
\* app.py 46-121: a script run after the user touched the sidebar
script_run(s, user_type, selected_merchant) ==
    /\ entry = "ui"
    /\ pc[s] = "input"
    /\ runs < MaxRuns
    /\ runs' = runs + 1
    /\ LET mode == mode_of(user_type, selected_merchant)
           changed == mode # current_mode[s]
           new == memory_for_mode(s, memories[s], memory, buffer)
           db == reinitialize(s, mode)
       IN /\ current_mode' = [current_mode EXCEPT ![s] = mode]
          /\ chat_history' = [chat_history EXCEPT
                                ![s] = IF changed THEN <<>> ELSE @]
          /\ memories' = [memories EXCEPT
                            ![s] = IF ~changed THEN @
                                   ELSE IF mode # "" THEN new.object
                                   ELSE "None"]
          /\ buffer' = referenced(
                           IF changed /\ mode # ""
                           THEN new.buffer ELSE buffer,
                           memory, memories')
          /\ engine' = [engine EXCEPT ![s] = db.engine]
          /\ context_str' = [context_str EXCEPT ![s] = db.context]
          /\ filtered_db' = db.file
    /\ UNCHANGED <<entry, turns, memory, printed, pc, question,
                   generated_sql, df_result, error_msg, attempt,
                   history_str, trace, prompt_result>>
    /\ UNCHANGED files

\* app.py: the on_change callback of the input box, up to nl_to_sql's call
process_query(s, input_text) ==
    /\ entry = "ui"
    /\ pc[s] = "input"
    /\ LET q == strip(input_text) IN
       IF q = NoText \/ current_mode[s] = ""
       THEN /\ rerun_after_callback(s)
            /\ UNCHANGED <<entry, turns, memory, buffer, current_mode,
                           chat_history, printed, pc, question,
                           generated_sql, df_result, error_msg, attempt,
                           history_str, trace, prompt_result>>
       ELSE /\ chat_history' = [chat_history EXCEPT
                   ![s] = Append(@, [role |-> "user", content |-> q])]
            /\ memory' = get_current_memory(s)
            /\ buffer' = referenced(buffer, memory', memories)
            /\ start_turn(s, q, memory')
            /\ UNCHANGED <<entry, current_mode, printed,
                           generated_sql, df_result, error_msg, attempt>>
            /\ UNCHANGED scope
    /\ UNCHANGED files

\* main.py: one pass of the console loop's input, up to nl_to_sql's call
console_input(s, line) ==
    /\ entry = "console"
    /\ pc[s] = "input"
    /\ LET q == strip(line) IN
       IF q = NoText \/ lower(q) = EXIT
       THEN /\ pc' = [pc EXCEPT ![s] = "exited"]
            /\ UNCHANGED <<entry, turns, memory, buffer, current_mode,
                           chat_history, printed, question, generated_sql,
                           df_result, error_msg, attempt, history_str,
                           trace, prompt_result>>
       ELSE /\ start_turn(s, q, memory)
            /\ UNCHANGED <<entry, memory, buffer, current_mode,
                           chat_history, printed, generated_sql, df_result,
                           error_msg, attempt>>
    /\ UNCHANGED scope
    /\ UNCHANGED files

\* nl_to_sql returns
nl_to_sql_return(s, r) ==
    /\ pc[s] = "nl_to_sql"
    /\ LET sql == nl_to_sql(r)
           tr == Append(trace[s], Event("nl_to_sql", NoText, NoneDf, NoneMsg,
                                        sql, history_str[s].mem))
       IN IF is_error(sql)
          THEN IF entry = "ui"
               THEN \* app.py: error_msg = generated_sql, then summarize
                    /\ generated_sql' = [generated_sql EXCEPT ![s] = sql]
                    /\ error_msg' = [error_msg EXCEPT ![s] = Msg(sql)]
                    /\ df_result' = [df_result EXCEPT ![s] = NoneDf]
                    /\ call_summarize(s, tr)
                    /\ UNCHANGED <<printed, question, attempt>>
               ELSE \* main.py: print the string and continue
                    /\ generated_sql' = [generated_sql EXCEPT ![s] = sql]
                    /\ printed' = Append(printed, sql)
                    /\ end_turn(s)
          ELSE /\ generated_sql' = [generated_sql EXCEPT ![s] = sql]
               /\ df_result' = [df_result EXCEPT ![s] = NoneDf]
               /\ error_msg' = [error_msg EXCEPT ![s] = NoneMsg]
               /\ attempt' = [attempt EXCEPT ![s] = 0]
               /\ loop_test(s, 0, tr)
               /\ UNCHANGED <<printed, question>>
    /\ UNCHANGED <<entry, turns, memory, buffer, current_mode, chat_history>>
    /\ UNCHANGED scope
    /\ UNCHANGED files

\* (variant: the try branch without its break)
execute_succeeded_no_break(s, df, tr) ==
    /\ df_result' = [df_result EXCEPT ![s] = df]
    /\ error_msg' = [error_msg EXCEPT ![s] = error_msg_on_success(@)]
    /\ loop_test(s, attempt[s], tr)
    /\ UNCHANGED attempt

\* the try branch: the statement ran, the loop is left by break
execute_succeeded(s, df, tr) ==
    /\ df_result' = [df_result EXCEPT ![s] = df]
    /\ error_msg' = [error_msg EXCEPT ![s] = error_msg_on_success(@)]
    /\ call_summarize(s, tr)
    /\ UNCHANGED attempt

\* the except branch, up to fix_sql_with_error's service call
execute_failed(s, e, tr) ==
    /\ error_msg' = [error_msg EXCEPT ![s] = error_msg_on_failure(@, e)]
    /\ attempt' = [attempt EXCEPT ![s] = @ + 1]
    /\ pc' = [pc EXCEPT ![s] = "fix_sql_with_error"]
    /\ history_str' = [history_str EXCEPT ![s] = LoadHistoryFrom(memory)]
    /\ trace' = [trace EXCEPT ![s] = tr]
    /\ UNCHANGED <<df_result, prompt_result>>

\* pd.read_sql_query returns or raises
execute_return(s) ==
    /\ pc[s] = "execute"
    /\ LET r == read_sql_query(generated_sql[s], engine[s], filtered_db)
           tr == Append(trace[s],
                        [Event("execute", generated_sql[s], r.df,
                               IF r.raised THEN Msg(r.e) ELSE NoneMsg,
                               NoText, "-")
                           EXCEPT !.store = Visible(engine[s], filtered_db)])
       IN IF ~r.raised
          THEN execute_succeeded(s, r.df, tr)
          ELSE execute_failed(s, r.e, tr)
    /\ UNCHANGED <<entry, turns, memory, buffer, current_mode, chat_history,
                   printed, question, generated_sql>>
    /\ UNCHANGED scope
    /\ UNCHANGED files

\* (variant: the failed repair's marker string replaces the error message)
fix_failed_carrying_marker(s, corrected_sql, tr) ==
    /\ error_msg' = [error_msg EXCEPT ![s] = Msg(corrected_sql)]
    /\ UNCHANGED generated_sql
    /\ call_summarize(s, tr)

\* if corrected_sql.startswith("--ERROR"): break
fix_failed(s, corrected_sql, tr) ==
    /\ UNCHANGED <<generated_sql, error_msg>>
    /\ call_summarize(s, tr)

\* generated_sql = corrected_sql, and back to the loop test
fix_succeeded(s, corrected_sql, tr) ==
    /\ generated_sql' = [generated_sql EXCEPT ![s] = corrected_sql]
    /\ UNCHANGED error_msg
    /\ loop_test(s, attempt[s], tr)

\* fix_sql_with_error returns
fix_return(s, r) ==
    /\ pc[s] = "fix_sql_with_error"
    /\ UNCHANGED <<entry, turns, memory, buffer, current_mode, chat_history,
                   printed, question, df_result, attempt>>
    /\ UNCHANGED scope
    /\ UNCHANGED files
    /\ LET corrected_sql == fix_sql_with_error(r)
           tr == Append(trace[s],
                        Event("fix_sql_with_error", generated_sql[s], NoneDf,
                              error_msg[s], corrected_sql,
                              history_str[s].mem))
       IN IF is_error(corrected_sql)
          THEN fix_failed(s, corrected_sql, tr)
          ELSE fix_succeeded(s, corrected_sql, tr)

\* summarize_result's service call returns: the pair is saved through the
\* module global and the summary returned; process_query cleans up its
\* spacing and appends it to the chat history, main prints it
summarize_return(s, r) ==
    /\ pc[s] = "summarize_result"
    /\ LET summary == summary_of(r) IN
          /\ buffer' = [buffer EXCEPT
                          ![memory] = save_context(@, question[s], summary)]
          /\ IF entry = "ui"
             THEN /\ chat_history' = [chat_history EXCEPT ![s] =
                        Append(@, [role |-> "assistant",
                                   content |-> clean_up_spacing(summary)])]
                  /\ UNCHANGED printed
             ELSE /\ printed' = Append(printed, summary)
                  /\ UNCHANGED <<chat_history, generated_sql>>
    /\ end_turn(s)
    /\ IF entry = "ui" THEN rerun_after_callback(s) ELSE UNCHANGED scope
    /\ UNCHANGED <<entry, turns, memory, current_mode>>
    /\ UNCHANGED files

\* one step of the program, the service answering from the given sets
Step(sql_responses, summary_responses) ==
    \/ \E s \in Sessions, u \in UserTypes, m \in MerchantChoices :
          script_run(s, u, m)
    \/ \E s \in Sessions, t \in InputTexts : process_query(s, t)
    \/ \E s \in Sessions, t \in ConsoleLines : console_input(s, t)
    \/ \E s \in Sessions, r \in sql_responses : nl_to_sql_return(s, r)
    \/ \E s \in Sessions : execute_return(s)
    \/ \E s \in Sessions, r \in sql_responses : fix_return(s, r)
    \/ \E s \in Sessions, r \in summary_responses : summarize_return(s, r)

Next == Step(SqlResponses, SummaryResponses)

Spec == Init /\ [][Next]_vars

\* With two sessions the service's answers are drawn from smaller sets: a
\* statement that runs, one that does not, and one summary.
SessionsSqlResponses == {Completed(SQL_COUNT), Completed(SQL_SYNTAX)}

SessionsSummaryResponses == {Completed(<<"o","k">>)}

NextSessions == Step(SessionsSqlResponses, SessionsSummaryResponses)

SpecSessions == InitSessions /\ [][NextSessions]_vars

(***************************************************************************)
(* The conversation memory followed alone, over more turns than the        *)
(* program's model runs: the object the module global names is the         *)
(* console's window memory, or the memory of a UI session's mode, and      *)
(* summarize_result's two uses of it are the steps.                        *)
(***************************************************************************)
MemoryQuestions == {<<"q">>}

MemoryAnswers == {<<"a">>, <<"b">>}

InitMemory ==
    /\ entry \in {"ui", "console"}
    /\ infile = <<>>
    /\ outfile = <<>>
    /\ turns = 0
    /\ runs = 0
    /\ prompt_result = [s \in Sessions |-> NoResult]
    /\ memories = [s \in Sessions |-> NewMemory(s, "None", "global")]
    /\ memory = IF entry = "ui" THEN get_current_memory("s1") ELSE "global"
    /\ buffer = [m \in MemoryObjects |-> <<>>]
    /\ current_mode = [s \in Sessions |-> "internal"]
    /\ chat_history = [s \in Sessions |-> <<>>]
    /\ printed = <<>>
    /\ engine = [s \in Sessions |-> "original"]
    /\ context_str = [s \in Sessions |-> INTERNAL_CONTEXT]
    /\ filtered_db = {}
    /\ pc = [s \in Sessions |-> "closed"]
    /\ question = [s \in Sessions |-> NoText]
    /\ generated_sql = [s \in Sessions |-> NoText]
    /\ df_result = [s \in Sessions |-> NoneDf]
    /\ error_msg = [s \in Sessions |-> NoneMsg]
    /\ attempt = [s \in Sessions |-> 0]
    /\ history_str = [s \in Sessions |-> NoHistory]
    /\ trace = [s \in Sessions |-> <<>>]

\* main.py 275: memory.save_context({"user": question}, {"assistant": summary})
memory_save_context(q, a) ==
    /\ Len(buffer[memory]) < MaxSaved
    /\ buffer' = [buffer EXCEPT ![memory] = save_context(@, q, a)]
    /\ UNCHANGED <<entry, turns, memory, current_mode, chat_history, printed,
                   pc, question, generated_sql, df_result, error_msg,
                   attempt, history_str, trace, prompt_result>>
    /\ UNCHANGED scope
    /\ UNCHANGED files

\* main.py 246: history_str = memory.load_memory_variables({})["history"]
memory_load ==
    /\ history_str' = [history_str EXCEPT !["s1"] = LoadHistoryFrom(memory)]
    /\ UNCHANGED <<entry, turns, memory, buffer, current_mode, chat_history,
                   printed, pc, question, generated_sql, df_result,
                   error_msg, attempt, trace, prompt_result>>
    /\ UNCHANGED scope
    /\ UNCHANGED files

NextMemory ==
    \/ \E q \in MemoryQuestions, a \in MemoryAnswers : memory_save_context(q, a)
    \/ memory_load

SpecMemory == InitMemory /\ [][NextMemory]_vars

(***************************************************************************)
(* summarize_result followed alone, over the results and error messages a  *)
(* caller can pass: the loop of process_query or main is over with the     *)
(* given df_result and error_msg, and summarize_result is called.          *)
(***************************************************************************)
\* str() of the cells: the integer 0, the floats 0.0 and -0.0 (SQLite gives
\* -0.0 for ROUND(-0.001, 2)), and a value that is not zero
Cells == {<<"0">>, <<"0",".","0">>, <<"-","0",".","0">>, <<"4">>}

Headers == {<<"n">>, <<"n", "m">>}

\* the tables of up to MaxRows rows under the header cols
Tables(cols) ==
    UNION {[1..n -> [1..Len(cols) -> Cells]] : n \in 0..MaxRows}

DataFrames ==
    UNION {{DataFrame(cols, rws) : rws \in Tables(cols)} : cols \in Headers}

\* error_msg: None, str(e) of an exception without a message (MemoryError()),
\* or a message
ErrorMessages == {NoneMsg, Msg(NoText), Msg(SYNTAX_ERROR),
                  Msg(ERROR_MARKER \o IN_NL_TO_SQL)}

InitSummarize ==
    /\ entry \in {"ui", "console"}
    /\ infile = <<>>
    /\ outfile = <<>>
    /\ turns = 1
    /\ runs = 0
    /\ prompt_result = [s \in Sessions |-> NoResult]
    /\ memories = [s \in Sessions |-> NewMemory(s, "None", "global")]
    /\ memory = IF entry = "ui" THEN get_current_memory("s1") ELSE "global"
    /\ buffer = [m \in MemoryObjects |-> <<>>]
    /\ current_mode = [s \in Sessions |-> "internal"]
    /\ chat_history = [s \in Sessions |-> <<>>]
    /\ printed = <<>>
    /\ engine = [s \in Sessions |-> "original"]
    /\ context_str = [s \in Sessions |-> INTERNAL_CONTEXT]
    /\ filtered_db = {}
    /\ pc = [s \in Sessions |-> IF s = "s1" THEN "loop_over" ELSE "closed"]
    /\ question = [s \in Sessions |-> IF s = "s1" THEN <<"q">> ELSE NoText]
    /\ generated_sql = [s \in Sessions |-> IF s = "s1" THEN SQL_COUNT ELSE NoText]
    /\ \E df \in DataFrames \cup {NoneDf} :
          df_result = [s \in Sessions |-> IF s = "s1" THEN df ELSE NoneDf]
    /\ \E e \in ErrorMessages :
          error_msg = [s \in Sessions |-> IF s = "s1" THEN e ELSE NoneMsg]
    /\ attempt = [s \in Sessions |-> 0]
    /\ history_str = [s \in Sessions |-> NoHistory]
    /\ trace = [s \in Sessions |-> <<>>]

\* app.py 183-189, main.py 345: summarize_result is called with the locals
summarize_result_called(s) ==
    /\ pc[s] = "loop_over"
    /\ UNCHANGED <<df_result, error_msg>>
    /\ call_summarize(s, trace[s])
    /\ UNCHANGED <<entry, turns, memory, buffer, current_mode, chat_history,
                   printed, question, generated_sql, attempt>>
    /\ UNCHANGED scope
    /\ UNCHANGED files

NextSummarize ==
    \/ \E s \in Sessions : summarize_result_called(s)
    \/ \E s \in Sessions, r \in SessionsSummaryResponses : summarize_return(s, r)

SpecSummarize == InitSummarize /\ [][NextSummarize]_vars

(***************************************************************************)
(* The return of summarize_result followed alone, over the summaries the   *)
(* service can give: the prompt has been sent, and the summary is saved,   *)
(* cleaned up and shown.                                                   *)
(***************************************************************************)
SummaryAlphabet == {".", "A", "a", "4", " "}

\* response.choices[0].message.content of up to MaxLen characters
SummaryTexts == UNION {[1..n -> SummaryAlphabet] : n \in 0..MaxLen}

CleanUpResponses == {Completed(c) : c \in SummaryTexts}

InitCleanUp ==
    /\ entry \in {"ui", "console"}
    /\ infile = <<>>
    /\ outfile = <<>>
    /\ turns = 1
    /\ runs = 0
    /\ prompt_result = [s \in Sessions |->
            IF s = "s1" THEN result_content(NoneDf, NoneMsg) ELSE NoResult]
    /\ memories = [s \in Sessions |-> NewMemory(s, "None", "global")]
    /\ memory = IF entry = "ui" THEN get_current_memory("s1") ELSE "global"
    /\ buffer = [m \in MemoryObjects |-> <<>>]
    /\ current_mode = [s \in Sessions |-> "internal"]
    /\ chat_history = [s \in Sessions |->
            IF s = "s1" /\ entry = "ui"
            THEN <<[role |-> "user", content |-> <<"q">>]>> ELSE <<>>]
    /\ printed = <<>>
    /\ engine = [s \in Sessions |-> "original"]
    /\ context_str = [s \in Sessions |-> INTERNAL_CONTEXT]
    /\ filtered_db = {}
    /\ pc = [s \in Sessions |->
               IF s = "s1" THEN "summarize_result" ELSE "closed"]
    /\ question = [s \in Sessions |-> IF s = "s1" THEN <<"q">> ELSE NoText]
    /\ generated_sql = [s \in Sessions |-> IF s = "s1" THEN SQL_COUNT ELSE NoText]
    /\ df_result = [s \in Sessions |-> NoneDf]
    /\ error_msg = [s \in Sessions |-> NoneMsg]
    /\ attempt = [s \in Sessions |-> 0]
    /\ history_str = [s \in Sessions |->
            IF s = "s1" THEN LoadHistoryFrom(memory) ELSE NoHistory]
    /\ trace = [s \in Sessions |-> <<>>]

NextCleanUp ==
    \E s \in Sessions, r \in CleanUpResponses : summarize_return(s, r)

SpecCleanUp == InitCleanUp /\ [][NextCleanUp]_vars

(***************************************************************************)
(* preprocess.py: the pass that rewrites each line of a raw CSV file,      *)
(* followed alone over every line of up to MaxLine characters.             *)
(***************************************************************************)
\* the characters the scan tells apart, and one that stands for the rest
LineAlphabet == {"{", "}", ",", "a"}

Lines == UNION {[1..n -> LineAlphabet] : n \in 0..MaxLine}

\* buffer.replace(",", ";")
replace(str, old, new) ==
    [i \in DOMAIN str |-> IF str[i] = old THEN new ELSE str[i]]

\* the locals of replace_commas_in_json_fields before the loop
ScanStart == [output |-> <<>>, buffer |-> <<>>, stack |-> 0,
              inside_json |-> FALSE]

\* one iteration of `for ch in line`
scan_ch(st, ch) ==
    CASE ch = "{" ->
            [st EXCEPT !.stack = @ + 1, !.inside_json = TRUE,
                       !.buffer = Append(@, ch)]
      [] ch = "}" ->
            IF st.stack - 1 = 0
            THEN [output |-> st.output \o replace(Append(st.buffer, ch), ",", ";"),
                  buffer |-> <<>>, stack |-> 0, inside_json |-> FALSE]
            ELSE [st EXCEPT !.stack = @ - 1, !.buffer = Append(@, ch)]
      [] st.inside_json -> [st EXCEPT !.buffer = Append(@, ch)]
      [] OTHER -> [st EXCEPT !.output = Append(@, ch)]

RECURSIVE scan(_, _)
\* the locals after the loop has run over the first n characters
scan(line, n) ==
    IF n = 0 THEN ScanStart ELSE scan_ch(scan(line, n - 1), line[n])

replace_commas_in_json_fields(line) ==
    LET st == scan(line, Len(line)) IN st.output \o st.buffer

InitPreprocess ==
    /\ entry = "console"
    /\ infile \in {<<line>> : line \in Lines}
    /\ outfile = <<>>
    /\ turns = 0
    /\ runs = 0
    /\ prompt_result = [s \in Sessions |-> NoResult]
    /\ memories = [s \in Sessions |-> "None"]
    /\ memory = "global"
    /\ buffer = [m \in MemoryObjects |-> <<>>]
    /\ current_mode = [s \in Sessions |-> ""]
    /\ chat_history = [s \in Sessions |-> <<>>]
    /\ printed = <<>>
    /\ engine = [s \in Sessions |-> "None"]
    /\ context_str = [s \in Sessions |-> NoText]
    /\ filtered_db = {}
    /\ pc = [s \in Sessions |-> "closed"]
    /\ question = [s \in Sessions |-> NoText]
    /\ generated_sql = [s \in Sessions |-> NoText]
    /\ df_result = [s \in Sessions |-> NoneDf]
    /\ error_msg = [s \in Sessions |-> NoneMsg]
    /\ attempt = [s \in Sessions |-> 0]
    /\ history_str = [s \in Sessions |-> NoHistory]
    /\ trace = [s \in Sessions |-> <<>>]

\* preprocess.py 55-57: the next line of infile is fixed and written
preprocess_files ==
    /\ Len(outfile) < Len(infile)
    /\ LET line == infile[Len(outfile) + 1]
           fixed_line == replace_commas_in_json_fields(line)
       IN outfile' = Append(outfile, fixed_line)
    /\ UNCHANGED <<entry, turns, memory, buffer, current_mode, chat_history,
                   printed, pc, question, generated_sql, df_result,
                   error_msg, attempt, history_str, trace, prompt_result,
                   infile>>
    /\ UNCHANGED scope

NextPreprocess == preprocess_files

SpecPreprocess == InitPreprocess /\ [][NextPreprocess]_vars

(***************************************************************************)
(* Vocabulary of the properties.                                           *)
(***************************************************************************)
InTurn == {"nl_to_sql", "execute", "fix_sql_with_error", "summarize_result"}

IsGeneration(e) == e.op \in {"nl_to_sql", "fix_sql_with_error"}

IsRepair(e) == e.op = "fix_sql_with_error"

IsExecution(e) == e.op = "execute"

\* the generation call returned the error marker
GenerationFailed(e) == IsGeneration(e) /\ startswith(e.text, ERROR_MARKER)

ExecutionFailed(e) == IsExecution(e) /\ ~e.err.isNone

ExecutionSucceeded(e) == IsExecution(e) /\ e.err.isNone

Executions(tr) == Cardinality({i \in DOMAIN tr : IsExecution(tr[i])})

Generations(tr) == Cardinality({i \in DOMAIN tr : IsGeneration(tr[i])})

Repairs(tr) == Cardinality({i \in DOMAIN tr : IsRepair(tr[i])})

\* the loop is over and summarize_result has been called with the locals
AtSummarizer(s) == pc[s] = "summarize_result"

(***************************************************************************)
(* C1  In every turn the retry loop makes at most MAX_RETRIES + 1          *)
(* executions and at most MAX_RETRIES + 1 generation calls (nl_to_sql and  *)
(* fix_sql_with_error together) before summarize_result is called.         *)
(***************************************************************************)
C1_AttemptsBounded ==
    \A s \in Sessions :
        /\ Executions(trace[s]) <= MAX_RETRIES + 1
        /\ Generations(trace[s]) <= MAX_RETRIES + 1

\* a turn that used all of its generation calls and reached the summarizer
C1_Witness ==
    \E s \in Sessions :
        /\ AtSummarizer(s)
        /\ Generations(trace[s]) = MAX_RETRIES + 1
        /\ Executions(trace[s]) = MAX_RETRIES

(***************************************************************************)
(* C2  When an execution fails and the repair call that follows returns a  *)
(* statement, that statement is executed before the loop is left; the loop *)
(* is left with an execution error only after MAX_RETRIES + 1 executions   *)
(* (attempts 0..MAX_RETRIES) have failed.                                  *)
(***************************************************************************)
C2_RepairedCandidateExecuted ==
    \A s \in Sessions :
        AtSummarizer(s) =>
            /\ \A i \in DOMAIN trace[s] :
                 (IsRepair(trace[s][i]) /\ ~GenerationFailed(trace[s][i])) =>
                     \E j \in DOMAIN trace[s] :
                         /\ j > i
                         /\ IsExecution(trace[s][j])
                         /\ trace[s][j].sql = trace[s][i].text
            /\ (/\ trace[s] # <<>>
                /\ ~GenerationFailed(trace[s][Len(trace[s])])
                /\ ~ExecutionSucceeded(trace[s][Len(trace[s])])) =>
                     Executions(trace[s]) = MAX_RETRIES + 1

C4_InitialGenerationFailureEndsLoop ==
    [][\A s \in Sessions :
        /\ (/\ pc[s] = "nl_to_sql"
            /\ pc'[s] # "nl_to_sql"
            /\ startswith(generated_sql'[s], ERROR_MARKER)) =>
               IF entry = "ui"
               THEN /\ pc'[s] = "summarize_result"
                    /\ error_msg'[s] = Msg(generated_sql'[s])
                    /\ df_result'[s].isNone
                    /\ Executions(trace'[s]) = 0
                    /\ Repairs(trace'[s]) = 0
               ELSE /\ pc'[s] = "input"
                    /\ printed' = Append(printed, generated_sql'[s])
        /\ (/\ AtSummarizer(s)
            /\ GenerationFailed(trace[s][1])) =>
               /\ Len(trace[s]) = 1
               /\ pc'[s] \in {"summarize_result", "input"}
      ]_vars

\* the UI turn whose first generation failed has reached the summarizer
C4_Witness ==
    \E s \in Sessions :
        /\ AtSummarizer(s)
        /\ Len(trace[s]) = 1
        /\ GenerationFailed(trace[s][1])
        /\ error_msg[s] = Msg(trace[s][1].text)

(***************************************************************************)
(* C5  Every turn that ends has appended exactly one pair, with the turn's *)
(* question, to a conversation memory, whatever its outcome.               *)
(***************************************************************************)
\* this step appends one pair with s's question to one memory object
TurnRecorded(s) ==
    \E m \in MemoryObjects :
        /\ Len(buffer'[m]) = Len(buffer[m]) + 1
        /\ SubSeq(buffer'[m], 1, Len(buffer[m])) = buffer[m]
        /\ buffer'[m][Len(buffer'[m])].user = question[s]
        /\ \A n \in MemoryObjects \ {m} : buffer'[n] = buffer[n]

C5_EveryTurnRecorded ==
    [][\A s \in Sessions :
        (pc[s] \in InTurn /\ pc'[s] = "input") => TurnRecorded(s)
      ]_vars

(***************************************************************************)
(* C6  When every execution of the turn failed and every generation call   *)
(* returned a statement, summarize_result is given the message of the last *)
(* failed execution as the error and no rows, and its return appends the   *)
(* turn to memory.                                                         *)
(***************************************************************************)
\* the last execution of a turn's calls
LastExecution(tr) ==
    tr[CHOOSE i \in DOMAIN tr :
          IsExecution(tr[i]) /\ \A j \in DOMAIN tr : j > i => ~IsExecution(tr[j])]

AllExecutionsFailed(s) ==
    /\ AtSummarizer(s)
    /\ Executions(trace[s]) >= 1
    /\ \A i \in DOMAIN trace[s] :
         /\ IsExecution(trace[s][i]) => ExecutionFailed(trace[s][i])
         /\ IsGeneration(trace[s][i]) => ~GenerationFailed(trace[s][i])

C6_ExhaustedCarriesLastError ==
    [][\A s \in Sessions :
        AllExecutionsFailed(s) =>
            /\ ~error_msg[s].isNone
            /\ error_msg[s] = LastExecution(trace[s]).err
            /\ df_result[s].isNone
            /\ result_content(df_result[s], error_msg[s]).form
                 = "Error executing SQL"
            /\ result_content(df_result[s], error_msg[s]).error
                 = LastExecution(trace[s]).err.text
            /\ pc'[s] # pc[s] => TurnRecorded(s)
      ]_vars

\* all executions failed, and the last message differs from the first
C6_Witness ==
    \E s \in Sessions :
        /\ AllExecutionsFailed(s)
        /\ Executions(trace[s]) = MAX_RETRIES
        /\ \E i \in DOMAIN trace[s] :
             /\ ExecutionFailed(trace[s][i])
             /\ trace[s][i].err # LastExecution(trace[s]).err

(***************************************************************************)
(* C7  When an execution failed and the statement returned by the repair   *)
(* call that followed ran, summarize_result is given the rows and the text *)
(* of that corrected statement and no error message.                       *)
(***************************************************************************)
RepairedAndSucceeded(s) ==
    /\ AtSummarizer(s)
    /\ Len(trace[s]) >= 4
    /\ ExecutionSucceeded(trace[s][Len(trace[s])])
    /\ IsRepair(trace[s][Len(trace[s]) - 1])
    /\ ExecutionFailed(trace[s][Len(trace[s]) - 2])

C7_CorrectedResultSummarized ==
    \A s \in Sessions :
        RepairedAndSucceeded(s) =>
            LET n == Len(trace[s]) IN
            /\ generated_sql[s] = trace[s][n - 1].text
            /\ generated_sql[s] = trace[s][n].sql
            /\ df_result[s] = trace[s][n].df
            /\ ~df_result[s].isNone
            /\ error_msg[s].isNone
            /\ result_content(df_result[s], error_msg[s]).form
                 # "Error executing SQL"

\* a corrected statement ran, and its text is not the failing statement's
C7_Witness ==
    \E s \in Sessions :
        /\ RepairedAndSucceeded(s)
        /\ generated_sql[s] # trace[s][Len(trace[s]) - 2].sql

(***************************************************************************)
(* C8  When the first generated statement runs, the turn makes exactly one *)
(* generation call and one execution, and fix_sql_with_error is not        *)
(* called.                                                                 *)
(***************************************************************************)
C8_FirstSuccessIsOneShot ==
    \A s \in Sessions :
        (Len(trace[s]) >= 2 /\ ExecutionSucceeded(trace[s][2])) =>
            /\ AtSummarizer(s)
            /\ Len(trace[s]) = 2
            /\ Generations(trace[s]) = 1
            /\ Executions(trace[s]) = 1
            /\ Repairs(trace[s]) = 0

\* the first statement ran and the summarizer has been called
C8_Witness ==
    \E s \in Sessions :
        /\ AtSummarizer(s)
        /\ Len(trace[s]) = 2
        /\ trace[s][1].op = "nl_to_sql"
        /\ ExecutionSucceeded(trace[s][2])

(***************************************************************************)
(* C9  No answer shown to the user (an assistant entry of the chat         *)
(* history, a printed Assistant line) is an error-marker string or a raw   *)
(* backend error message.                                                  *)
(***************************************************************************)
RawErrors == {NO_SUCH_COLUMN, SYNTAX_ERROR} \cup ServiceErrors

ShownAnswers ==
    {printed[i] : i \in DOMAIN printed} \cup
    UNION {{chat_history[s][i].content :
               i \in {j \in DOMAIN chat_history[s] :
                         chat_history[s][j].role = "assistant"}} :
           s \in Sessions}

C9_NoRawErrorShown ==
    \A a \in ShownAnswers : ~startswith(a, ERROR_MARKER) /\ a \notin RawErrors

(***************************************************************************)
(* C10  With two sessions in one process, every prompt of a turn is built  *)
(* from the memory of the session that asked, and the turn's pair is saved *)
(* to that same memory.                                                    *)
(***************************************************************************)
OwnMemory(s) == IF entry = "ui" THEN get_current_memory(s) ELSE "global"

C10_SessionsIsolated ==
    [][\A s \in Sessions :
        /\ history_str'[s].mem \in {"-", OwnMemory(s)}
        /\ (pc[s] = "summarize_result" /\ pc'[s] = "input") =>
              \E r \in SummaryResponses :
                  buffer' = [buffer EXCEPT ![OwnMemory(s)] =
                               save_context(@, question[s], summary_of(r))]
      ]_vars

(***************************************************************************)
(* C11  With two merchant sessions for different merchants in one process, *)
(* every statement a session executes runs against a store that holds only *)
(* that session's own merchant's rows, also after the other session has    *)
(* initialised its filtered store (again).                                 *)
(***************************************************************************)
\* the session serves a merchant whose store was found
MerchantSession(s) ==
    /\ entry = "ui"
    /\ current_mode[s] \notin {"", "internal"}
    /\ merchant_of(current_mode[s]) \in StoreNames

C11_OwnMerchantRowsOnly ==
    \A s \in Sessions :
        MerchantSession(s) =>
            \A i \in DOMAIN trace[s] :
                IsExecution(trace[s][i]) =>
                    trace[s][i].store = {merchant_of(current_mode[s])}

(***************************************************************************)
(* C12  Whenever the mode of a UI session changes, its chat history is     *)
(* empty and the memory its next turns use is empty; and the history a     *)
(* call of a turn loads holds exactly the pairs recorded since the last    *)
(* change of mode, so never a pair recorded before it, also when the user  *)
(* has returned to a mode used earlier.                                    *)
(***************************************************************************)
\* the questions answered since the chat history was last emptied
AnsweredSinceChange(s) ==
    LET h == chat_history[s]
        n == Cardinality({i \in DOMAIN h : h[i].role = "assistant"})
    IN [i \in 1..n |-> h[2 * i - 1].content]

\* the questions of the pairs the pending call's prompt holds
QuestionsSeen(s) ==
    [i \in DOMAIN history_str[s].turns |-> history_str[s].turns[i].user]

SeesOnlyCurrentScope(s) ==
    (pc[s] \in InTurn /\ history_str[s].mem # "-") =>
        QuestionsSeen(s) = AnsweredSinceChange(s)

C12_ScopeChangeClearsMemory ==
    [][\A s \in Sessions :
          entry = "ui" =>
            /\ current_mode'[s] # current_mode[s] =>
                  /\ chat_history'[s] = <<>>
                  /\ current_mode'[s] # "" =>
                        buffer'[get_current_memory(s)'] = <<>>
            /\ SeesOnlyCurrentScope(s)'
      ]_vars

\* after a recorded turn the user left the first mode and came back to it, and
\* the next turn's first prompt has an empty history
C12_Witness ==
    /\ entry = "ui"
    /\ runs = 2
    /\ turns = 2
    /\ current_mode["s1"] = "internal"
    /\ pc["s1"] = "nl_to_sql"
    /\ history_str["s1"].turns = <<>>
    /\ Len(chat_history["s1"]) = 1

(***************************************************************************)
(* C13  When no store is found for the selected merchant, the set-up is    *)
(* aborted and no turn is processed for that session: no generation call,  *)
(* no execution and no memory append happens for a question submitted      *)
(* under that scope.                                                       *)
(***************************************************************************)
\* the set-up of the session found no store for its merchant
TenantNotFound(s) ==
    IF entry = "ui"
    THEN /\ current_mode[s] \notin {"", "internal"}
         /\ merchant_of(current_mode[s]) \notin StoreNames
    ELSE pc[s] = "raised"

C13_NoTurnWithoutTenant ==
    \A s \in Sessions : TenantNotFound(s) => pc[s] \notin InTurn

(***************************************************************************)
(* C14  After N pairs were saved into a memory, the history a prompt loads *)
(* holds the most recent min(N, window) pairs, in the order they were      *)
(* saved and with their content unchanged (all N pairs where the memory    *)
(* has no window); and the first pair shown never moves back, so a pair    *)
(* that has dropped out of the window does not come back.                  *)
(***************************************************************************)
\* the number of pairs a memory with N saved pairs is configured to show
Shown(m, N) == IF m = "global" /\ N > WINDOW_K THEN WINDOW_K ELSE N

\* the most recent Shown(m, N) of the saved pairs, oldest first
MostRecent(m, saved) ==
    LET N == Len(saved)
        k == Shown(m, N)
    IN [i \in 1..k |-> saved[N - k + i]]

\* the index, among the saved pairs, of the first pair a load would show now
FirstShown ==
    Len(buffer[memory]) - Len(LoadHistoryFrom(memory).turns) + 1

C15_HistoryBounded ==
    \A s \in Sessions :
        history_str[s].mem # "-" => Len(history_str[s].turns) <= WINDOW_K

(***************************************************************************)
(* C16  If the summarization service call fails, summarize_result does not *)
(* raise: it returns the error-marker string as the answer, the turn       *)
(* completes, and the pair (question, marker answer) is appended to memory *)
(* exactly once.                                                           *)
(***************************************************************************)
\* what summarize_result may return: a completion stripped, or the marker
\* string with the text of the failure
MarkerAnswers == {ERROR_MARKER \o IN_SUMMARIZE \o e : e \in ServiceErrors}

ExpectedAnswers == {strip(c) : c \in SummaryCompletions} \cup MarkerAnswers

C16_SummaryFailureRecorded ==
    [][\A s \in Sessions :
          (pc[s] = "summarize_result" /\ pc'[s] # pc[s]) =>
             /\ pc'[s] = "input"
             /\ \E a \in ExpectedAnswers :
                   /\ buffer' = [buffer EXCEPT ![memory] =
                           Append(@, [user |-> question[s], assistant |-> a])]
                   /\ IF entry = "ui"
                      THEN chat_history'[s] = Append(chat_history[s],
                               [role |-> "assistant",
                                content |-> clean_up_spacing(a)])
                      ELSE printed' = Append(printed, a)
      ]_vars

\* a turn has completed whose saved answer is the marker string
C16_Witness ==
    /\ pc["s1"] = "input"
    /\ turns = 1
    /\ Len(buffer[memory]) = 1
    /\ buffer[memory][1].assistant \in MarkerAnswers
    /\ buffer[memory][1].user # NoText

(***************************************************************************)
(* C17  For every Success outcome summarize_result builds exactly one      *)
(* result description: the no-rows phrase when the result has no rows, the *)
(* single-value-zero phrase when it has one row and one column whose value *)
(* is zero, otherwise the full table with its header and its rows in the   *)
(* order returned.                                                         *)
(***************************************************************************)
\* the statement ran: rows were returned and there is no error message
Success(s) == ~df_result[s].isNone /\ error_msg[s].isNone

\* the cell's value is zero
IsZero(cell) == cell \in {<<"0">>, <<"0",".","0">>, <<"-","0",".","0">>}

OneZeroValue(df) ==
    Len(df.rows) = 1 /\ Len(df.columns) = 1 /\ IsZero(df.rows[1][1])

C17_SuccessDescription ==
    \A s \in Sessions :
        (AtSummarizer(s) /\ Success(s)) =>
            LET df == df_result[s]
                rc == prompt_result[s]
            IN /\ rc.form \in {"no rows returned", "single value 0",
                                "Result Table"}
               /\ rc.form = "no rows returned" <=> Len(df.rows) = 0
               /\ rc.form = "single value 0" <=> OneZeroValue(df)
               /\ rc.form = "Result Table" => rc.table = df

(***************************************************************************)
(* C18  For every terminal execution error or generation error, whatever   *)
(* the text of its message, an empty one included, the result description  *)
(* of the summarization prompt is the "Error executing SQL" form with that *)
(* message, never the no-rows form or a table.                             *)
(***************************************************************************)
\* the loop ended with an error message (and without rows)
Failure(s) == ~error_msg[s].isNone

C18_ErrorDescription ==
    \A s \in Sessions :
        (AtSummarizer(s) /\ Failure(s)) =>
            /\ prompt_result[s].form = "Error executing SQL"
            /\ prompt_result[s].error = error_msg[s].text

(***************************************************************************)
(* C19  The answer recorded in memory for a turn is the final answer of    *)
(* that turn: the text saved to memory equals the text, after the spacing  *)
(* clean-up, that is shown in the chat history (printed, at the console).  *)
(***************************************************************************)
\* the answer of the pair saved last into the memory the module global names
SavedAnswer == buffer[memory][Len(buffer[memory])].assistant

\* the answer shown last to the user of session s
ShownAnswer(s) ==
    IF entry = "ui"
    THEN chat_history[s][Len(chat_history[s])].content
    ELSE printed[Len(printed)]

C19_SavedAnswerIsShownAnswer ==
    [][\A s \in Sessions :
          (pc[s] = "summarize_result" /\ pc'[s] = "input") =>
              SavedAnswer' = ShownAnswer(s)'
      ]_vars

(***************************************************************************)
(* C20  The spacing clean-up of process_query returns the raw summary with *)
(* one space put after every "." that an uppercase letter follows, between *)
(* every lowercase letter and an uppercase letter that follows it, and     *)
(* between every letter and a digit that follows it; nothing else is       *)
(* added, no character is removed, changed or moved, and none of the three *)
(* pairs is left in the result.                                            *)
(***************************************************************************)
IsLetter(c) == IsUpper(c) \/ IsLower(c)

\* the pairs of adjacent characters that are to be separated
ToSeparate(a, b) ==
    \/ a = "." /\ IsUpper(b)
    \/ IsLower(a) /\ IsUpper(b)
    \/ IsLetter(a) /\ IsDigit(b)

\* t with one space put into each of those pairs, and nothing else changed
RECURSIVE Separated(_)
Separated(t) ==
    IF Len(t) < 2 THEN t
    ELSE IF ToSeparate(t[1], t[2])
         THEN <<t[1], " ">> \o Separated(Tail(t))
         ELSE <<t[1]>> \o Separated(Tail(t))

NoPairLeft(t) ==
    \A i \in 1..(Len(t) - 1) : ~ToSeparate(t[i], t[i + 1])

\* the UI turns whose answer is shown: the summary as saved, and as shown
C20_CleanUpSeparates ==
    \A s \in Sessions :
        (entry = "ui" /\ pc[s] = "input" /\ buffer[memory] # <<>>) =>
            /\ ShownAnswer(s) = Separated(SavedAnswer)
            /\ NoPairLeft(ShownAnswer(s))

\* ".Aa4" was returned and ". Aa 4" is shown
C20_Witness ==
    /\ entry = "ui"
    /\ pc["s1"] = "input"
    /\ buffer[memory] # <<>>
    /\ SavedAnswer = <<".", "A", "a", "4">>
    /\ ShownAnswer("s1") = <<".", " ", "A", "a", " ", "4">>

(***************************************************************************)
(* C21  When a statement ran and returned a single row with a single       *)
(* column equal to 0, the answer of the turn is the zero-match sentence    *)
(* "It seems there are zero matching records-please verify your question." *)
(* verbatim, whatever the text-generation service returns.                 *)
(***************************************************************************)
C21_ZeroMatchSentence ==
    [][\A s \in Sessions :
          (/\ pc[s] = "summarize_result"
           /\ pc'[s] = "input"
           /\ Success(s)
           /\ prompt_result[s].form = "single value 0") =>
              ShownAnswer(s)' = ZERO_MATCH_SENTENCE
      ]_vars

(***************************************************************************)
(* C22  Within a turn no candidate statement is executed more than once:   *)
(* every execution runs the statement that the generation call just before *)
(* it returned; and after an execution succeeded the turn makes no repair  *)
(* call and no further execution.                                          *)
(***************************************************************************)
C22_EachCandidateRunsOnce ==
    \A s \in Sessions :
        \A i \in DOMAIN trace[s] :
            LET tr == trace[s] IN
            /\ IsExecution(tr[i]) =>
                  /\ i > 1
                  /\ IsGeneration(tr[i - 1])
                  /\ tr[i].sql = tr[i - 1].text
            /\ ExecutionSucceeded(tr[i]) => i = Len(tr)

\* two candidates failed, each was run once, and the third ran
C22_Witness ==
    \E s \in Sessions :
        /\ AtSummarizer(s)
        /\ Executions(trace[s]) = 3
        /\ Repairs(trace[s]) = 2
        /\ ExecutionSucceeded(trace[s][Len(trace[s])])

(***************************************************************************)
(* C23  Every repair call is made with the statement that was executed     *)
(* most recently in the turn and with the error message of that same       *)
(* execution, never with an older candidate or an earlier error.           *)
(***************************************************************************)
C23_RepairGetsLastFailure ==
    \A s \in Sessions :
        \A i \in DOMAIN trace[s] :
            LET tr == trace[s] IN
            IsRepair(tr[i]) =>
                /\ i > 1
                /\ ExecutionFailed(tr[i - 1])
                /\ tr[i].sql = tr[i - 1].sql
                /\ tr[i].err = tr[i - 1].err

\* a second repair call was made, after two executions that failed with
\* different messages on different statements
C23_Witness ==
    \E s \in Sessions :
        /\ Repairs(trace[s]) >= 2
        /\ \E i, j \in DOMAIN trace[s] :
              /\ i < j
              /\ IsRepair(trace[s][i])
              /\ IsRepair(trace[s][j])
              /\ trace[s][i].sql # trace[s][j].sql
              /\ trace[s][i].err # trace[s][j].err

(***************************************************************************)
(* C24  At every call of summarize_result the turn has exactly one         *)
(* terminal outcome: either a tabular result or an error message is        *)
(* present, never both and never neither.                                  *)
(***************************************************************************)
C24_OneTerminalOutcome ==
    \A s \in Sessions :
        AtSummarizer(s) => (df_result[s].isNone # error_msg[s].isNone)

\* a statement ran after an earlier one had failed: the rows are present
\* and the earlier error message is gone
C24_Witness ==
    \E s \in Sessions :
        /\ AtSummarizer(s)
        /\ \E i \in DOMAIN trace[s] : ExecutionFailed(trace[s][i])
        /\ ~df_result[s].isNone
        /\ error_msg[s].isNone

(***************************************************************************)
(* C25  Whenever summarize_result is called, the sql_query it receives is  *)
(* a statement that was executed during the turn, and the rows or the      *)
(* error message it receives are the result of executing that same         *)
(* statement.                                                              *)
(***************************************************************************)
C25_SqlAndOutcomeOfOneAttempt ==
    \A s \in Sessions :
        AtSummarizer(s) =>
            \E i \in DOMAIN trace[s] :
                /\ IsExecution(trace[s][i])
                /\ trace[s][i].sql = generated_sql[s]
                /\ trace[s][i].df = df_result[s]
                /\ trace[s][i].err = error_msg[s]

(***************************************************************************)
(* C26  For every input line, replace_commas_in_json_fields returns a      *)
(* string of the same length that equals the input position for position,  *)
(* except that a comma is replaced by a semicolon exactly when it lies     *)
(* inside a brace group {...} that is closed on that line; no character is *)
(* dropped, duplicated or moved, also when braces are unmatched.           *)
(***************************************************************************)
\* opening braces minus closing braces among line[i..k]
Depth(line, i, k) ==
    Cardinality({x \in i..k : line[x] = "{"})
      - Cardinality({x \in i..k : line[x] = "}"})

\* line[i] is an opening brace and line[j] the brace that closes it
ClosedGroup(line, i, j) ==
    /\ i < j
    /\ line[i] = "{"
    /\ line[j] = "}"
    /\ Depth(line, i, j) = 0
    /\ \A k \in i..(j - 1) : Depth(line, i, k) > 0

InClosedGroup(line, p) ==
    \E i, j \in DOMAIN line : i < p /\ p < j /\ ClosedGroup(line, i, j)

CommasOfClosedGroupsReplaced(line) ==
    [p \in DOMAIN line |->
        IF line[p] = "," /\ InClosedGroup(line, p) THEN ";" ELSE line[p]]

C26_OnlyGroupCommasChange ==
    \A k \in DOMAIN outfile :
        outfile[k] = CommasOfClosedGroupsReplaced(infile[k])

=============================================================================
